---------------------------- MODULE Spec2Model ----------------------------
(***************************************************************************)
(* A model of the blackjack crate's card library (src/src/cards.rs) and of *)
(* its entry point (src/src/bin/main.rs).                                  *)
(*                                                                         *)
(* A Vec<Card> is a sequence; Rust's 0-based position p is the sequence's  *)
(* position p + 1.  The top of the deck is the end of the sequence.  A     *)
(* string is the sequence of its Unicode code points.                      *)
(*                                                                         *)
(* Two specifications are given:                                           *)
(*   Spec      a caller of the library that builds a deck with             *)
(*             Deck::default() or Deck::shuffled() and then calls pop,     *)
(*             deal_hands and shuffle in any order;                        *)
(*   SpecMain  the program of main.rs.                                     *)
(***************************************************************************)
EXTENDS Integers, Sequences, FiniteSets

VARIABLES
    deck,       \* Deck.cards, bottom to top
    hands,      \* the `hands` vector of the latest deal_hands call
    drawn,      \* every card Deck::pop has returned as Some(card), in order
    call,       \* the latest call on the deck, its arguments and its result
    panicked,   \* TRUE once expect() has panicked in deal_hands
    ordered,    \* TRUE iff built by Deck::default() and never shuffled
    nonePops,   \* how many times the caller's pop has returned None
    pc,         \* main.rs: the position of main ("lib" under Spec)
    out         \* main.rs: the code points written to standard output

vars == <<deck, hands, drawn, call, panicked, ordered, nonePops, pc, out>>

(***************************************************************************)
(* Bounds of the model.                                                    *)
(***************************************************************************)
\* deal_hands is called with hand_count in 0..MaxHands
MaxHands == 2
\* deal_hands is called with cards_per_hand in 0..MaxPerHand
MaxPerHand == 2
\* The random source moves only the ShuffleWindow bottom positions of the
\* slice: gen_range(0, i + 1) returns any index for i < ShuffleWindow and
\* i itself above it.
ShuffleWindow == 2
\* The caller stops calling pop after it has returned None this many times.
MaxNonePops == 2

(***************************************************************************)
(* Suit, Rank and Card.                                                    *)
(***************************************************************************)
ALL_SUITS == <<"Clubs", "Diamonds", "Hearts", "Spades">>

ALL_RANKS == <<"Two", "Three", "Four", "Five", "Six", "Seven", "Eight",
               "Nine", "Ten", "Jack", "Queen", "King", "Ace">>

\* Option<Card>: None is the empty sequence, Some(c) the sequence of c alone.
None == <<>>

Some(c) == <<c>>

\* Option::unwrap on a Some
unwrap(opt) == opt[1]

card(rank, suit) == [rank |-> rank, suit |-> suit]

\* Suit::symbol: the code point of the one-character string.
SuitSymbol(suit) ==
    CASE suit = "Clubs"    -> <<9827>>
      [] suit = "Diamonds" -> <<9830>>
      [] suit = "Hearts"   -> <<9829>>
      [] suit = "Spades"   -> <<9824>>

\* Rank::symbol: the code point of the one-character string.
RankSymbol(rank) ==
    CASE rank = "Ace"   -> <<65>>
      [] rank = "Two"   -> <<50>>
      [] rank = "Three" -> <<51>>
      [] rank = "Four"  -> <<52>>
      [] rank = "Five"  -> <<53>>
      [] rank = "Six"   -> <<54>>
      [] rank = "Seven" -> <<55>>
      [] rank = "Eight" -> <<56>>
      [] rank = "Nine"  -> <<57>>
      [] rank = "Ten"   -> <<84>>
      [] rank = "Jack"  -> <<74>>
      [] rank = "Queen" -> <<81>>
      [] rank = "King"  -> <<75>>

\* A plausible slip: the suit written before the rank.
DisplaySuitFirst(c) == SuitSymbol(c.suit) \o RankSymbol(c.rank)

\* impl fmt::Display for Card: write!(f, "{}{}", rank.symbol(), suit.symbol())
Display(c) == RankSymbol(c.rank) \o SuitSymbol(c.suit)

(***************************************************************************)
(* Hand.                                                                   *)
(***************************************************************************)
\* Hand::push
push(hand, c) == Append(hand, c)

(***************************************************************************)
(* Deck::default(): for suit in ALL_SUITS { for rank in ALL_RANKS { push } }*)
(***************************************************************************)
RECURSIVE PushRanks(_, _, _)
PushRanks(cards, suit, r) ==
    IF r > Len(ALL_RANKS) THEN cards
    ELSE PushRanks(Append(cards, card(ALL_RANKS[r], suit)), suit, r + 1)

RECURSIVE PushSuits(_, _)
PushSuits(cards, s) ==
    IF s > Len(ALL_SUITS) THEN cards
    ELSE PushSuits(PushRanks(cards, ALL_SUITS[s], 1), s + 1)

RECURSIVE PushSuitsOfRank(_, _, _)
PushSuitsOfRank(cards, rank, s) ==
    IF s > Len(ALL_SUITS) THEN cards
    ELSE PushSuitsOfRank(Append(cards, card(rank, ALL_SUITS[s])), rank, s + 1)

RECURSIVE PushRanksOuter(_, _)
PushRanksOuter(cards, r) ==
    IF r > Len(ALL_RANKS) THEN cards
    ELSE PushRanksOuter(PushSuitsOfRank(cards, ALL_RANKS[r], 1), r + 1)

\* A plausible slip: the two loops nested the other way round.
DefaultRanksOuter == PushRanksOuter(<<>>, 1)

Default == PushSuits(<<>>, 1)

(***************************************************************************)
(* Deck::pop: Vec::pop.                                                    *)
(***************************************************************************)
\* A plausible slip: the card is taken from the bottom (remove(0)).
PopFront(cards) ==
    IF cards = <<>> THEN [ret |-> None, cards |-> cards]
    ELSE [ret |-> Some(cards[1]), cards |-> Tail(cards)]

\* A plausible slip: the last card is never given out.
PopKeepsLast(cards) ==
    IF Len(cards) <= 1 THEN [ret |-> None, cards |-> cards]
    ELSE [ret |-> Some(cards[Len(cards)]), cards |-> SubSeq(cards, 1, Len(cards) - 1)]

\* A plausible slip: the top card is read but not removed (last().cloned()).
PopPeeks(cards) ==
    IF cards = <<>> THEN [ret |-> None, cards |-> cards]
    ELSE [ret |-> Some(cards[Len(cards)]), cards |-> cards]

pop(cards) ==
    IF cards = <<>> THEN [ret |-> None, cards |-> cards]
    ELSE [ret |-> Some(cards[Len(cards)]), cards |-> SubSeq(cards, 1, Len(cards) - 1)]

(***************************************************************************)
(* Deck::shuffle: SliceRandom::shuffle on the cards,                       *)
(*   for i in (1..len).rev() { swap(i, rng.gen_range(0, i + 1)) }          *)
(* The random source is an input: rng[i] is what it returns at step i.     *)
(***************************************************************************)
\* slice.swap(i, j), 0-based; swapping a position with itself changes nothing
swap(cards, i, j) ==
    IF i = j THEN cards
    ELSE [cards EXCEPT ![i + 1] = cards[j + 1], ![j + 1] = cards[i + 1]]

\* The values the random source returns for gen_range(0, i + 1).
GenRange(i) == IF i < ShuffleWindow THEN 0 .. i ELSE {i}

\* The steps of the loop at which the random source has a choice.
FreeSteps(len) == {i \in 1 .. (len - 1) : i < ShuffleWindow}

\* The random sources for a slice of length len.
Rngs(len) ==
    {w \in [FreeSteps(len) -> 0 .. (ShuffleWindow - 1)] :
        \A i \in FreeSteps(len) : w[i] \in GenRange(i)}

\* rng.gen_range(0, i + 1)
gen_range(rng, i) == IF i \in DOMAIN rng THEN rng[i] ELSE i

RECURSIVE ShuffleFrom(_, _, _)
ShuffleFrom(cards, i, rng) ==
    IF i < 1 THEN cards
    ELSE ShuffleFrom(swap(cards, i, gen_range(rng, i)), i - 1, rng)

RECURSIVE ShuffleCopyFrom(_, _, _)
ShuffleCopyFrom(cards, i, rng) ==
    IF i < 1 THEN cards
    ELSE ShuffleCopyFrom([cards EXCEPT ![i + 1] = cards[gen_range(rng, i) + 1]],
                         i - 1, rng)

\* A plausible slip: the chosen card is copied over position i, not swapped.
ShuffleCopies(cards, rng) == ShuffleCopyFrom(cards, Len(cards) - 1, rng)

shuffle(cards, rng) == ShuffleFrom(cards, Len(cards) - 1, rng)

\* Deck::shuffled
shuffled(rng) == shuffle(Default, rng)

(***************************************************************************)
(* Deck::deal_hands.  The state of the call: the deck's cards, the hands,  *)
(* the cards taken so far, the number of pop calls made, and whether       *)
(* expect() has panicked.                                                  *)
(***************************************************************************)
\* for _ in 0..hand_count { hands.push(Hand::default()) }
NewHands(hand_count) == [i \in 1 .. hand_count |-> <<>>]

DealStart(cards, hand_count) ==
    [cards |-> cards, hands |-> NewHands(hand_count), taken |-> <<>>,
     pops |-> 0, panicked |-> FALSE]

\* hand.push(self.pop().expect("unable to draw card from deck"))
DealOne(st, i) ==
    LET r == pop(st.cards) IN
    IF r.ret = None
    THEN [st EXCEPT !.cards = r.cards, !.pops = @ + 1, !.panicked = TRUE]
    ELSE [st EXCEPT !.cards = r.cards, !.pops = @ + 1,
                    !.hands[i] = push(@, unwrap(r.ret)),
                    !.taken = Append(@, unwrap(r.ret))]

\* for hand in hands.iter_mut() { ... }, from hand i on
RECURSIVE DealRound(_, _)
DealRound(st, i) ==
    IF st.panicked \/ i > Len(st.hands) THEN st
    ELSE DealRound(DealOne(st, i), i + 1)

\* for _ in 0..cards_per_hand { ... }, from round `round` on
RECURSIVE DealRounds(_, _, _)
DealRounds(st, round, cards_per_hand) ==
    IF st.panicked \/ round >= cards_per_hand THEN st
    ELSE DealRounds(DealRound(st, 1), round + 1, cards_per_hand)

\* The slips below are variants of deal_hands.
RECURSIVE DealBlockHand(_, _, _, _)
DealBlockHand(st, i, j, cards_per_hand) ==
    IF st.panicked \/ j >= cards_per_hand THEN st
    ELSE DealBlockHand(DealOne(st, i), i, j + 1, cards_per_hand)

RECURSIVE DealBlockHands(_, _, _)
DealBlockHands(st, i, cards_per_hand) ==
    IF st.panicked \/ i > Len(st.hands) THEN st
    ELSE DealBlockHands(DealBlockHand(st, i, 0, cards_per_hand), i + 1,
                        cards_per_hand)

\* A plausible slip: each hand is filled before the next one.
DealBlocks(cards, hand_count, cards_per_hand) ==
    DealBlockHands(DealStart(cards, hand_count), 1, cards_per_hand)

\* A plausible slip: 0..=cards_per_hand, one round too many.
DealOneRoundMore(cards, hand_count, cards_per_hand) ==
    DealRounds(DealStart(cards, hand_count), 0, cards_per_hand + 1)

DealOneOrSkip(st, i) ==
    LET r == pop(st.cards) IN
    IF r.ret = None
    THEN [st EXCEPT !.pops = @ + 1]
    ELSE [st EXCEPT !.cards = r.cards, !.pops = @ + 1,
                    !.hands[i] = push(@, unwrap(r.ret)),
                    !.taken = Append(@, unwrap(r.ret))]

RECURSIVE DealRoundOrSkip(_, _)
DealRoundOrSkip(st, i) ==
    IF i > Len(st.hands) THEN st
    ELSE DealRoundOrSkip(DealOneOrSkip(st, i), i + 1)

RECURSIVE DealRoundsOrSkip(_, _, _)
DealRoundsOrSkip(st, round, cards_per_hand) ==
    IF round >= cards_per_hand THEN st
    ELSE DealRoundsOrSkip(DealRoundOrSkip(st, 1), round + 1, cards_per_hand)

\* A plausible slip: `if let Some(card) = self.pop()`, no panic on None.
DealNoPanic(cards, hand_count, cards_per_hand) ==
    DealRoundsOrSkip(DealStart(cards, hand_count), 0, cards_per_hand)

\* A plausible slip: the precondition is checked before any card is drawn.
DealChecksFirst(cards, hand_count, cards_per_hand) ==
    IF Len(cards) < hand_count * cards_per_hand
    THEN [DealStart(cards, hand_count) EXCEPT !.pops = 0, !.panicked = TRUE]
    ELSE DealRounds(DealStart(cards, hand_count), 0, cards_per_hand)

deal_hands(cards, hand_count, cards_per_hand) ==
    DealRounds(DealStart(cards, hand_count), 0, cards_per_hand)

(***************************************************************************)
(* The library under an arbitrary caller.                                  *)
(***************************************************************************)
Call(op, ret, hand_count, cards_per_hand, pops) ==
    [op |-> op, ret |-> ret, hand_count |-> hand_count,
     cards_per_hand |-> cards_per_hand, pops |-> pops]

\* let mut deck = Deck::default();
InitDefault ==
    /\ deck = Default
    /\ call = Call("default", None, 0, 0, 0)
    /\ ordered = TRUE

\* let mut deck = Deck::shuffled();
InitShuffled ==
    /\ \E rng \in Rngs(Len(Default)) : deck = shuffled(rng)
    /\ call = Call("shuffled", None, 0, 0, 0)
    /\ ordered = FALSE

Init ==
    /\ InitDefault \/ InitShuffled
    /\ hands = <<>>
    /\ drawn = <<>>
    /\ panicked = FALSE
    /\ nonePops = 0
    /\ pc = "lib"
    /\ out = <<>>

\* deck.pop()
Pop ==
    /\ ~panicked
    /\ deck # <<>> \/ nonePops < MaxNonePops
    /\ LET r == pop(deck) IN
        /\ deck' = r.cards
        /\ call' = Call("pop", r.ret, 0, 0, 1)
        /\ drawn' = IF r.ret = None THEN drawn ELSE Append(drawn, unwrap(r.ret))
        /\ nonePops' = IF r.ret = None THEN nonePops + 1 ELSE nonePops
    /\ UNCHANGED <<hands, panicked, ordered, pc, out>>

\* deck.deal_hands(hand_count, cards_per_hand)
DealHands ==
    /\ ~panicked
    /\ \E hand_count \in 0 .. MaxHands, cards_per_hand \in 0 .. MaxPerHand :
        LET d == deal_hands(deck, hand_count, cards_per_hand) IN
        /\ deck' = d.cards
        /\ hands' = d.hands
        /\ drawn' = drawn \o d.taken
        /\ panicked' = d.panicked
        /\ call' = Call("deal_hands", None, hand_count, cards_per_hand, d.pops)
    /\ UNCHANGED <<ordered, nonePops, pc, out>>

\* deck.shuffle()
Shuffle ==
    /\ ~panicked
    /\ \E rng \in Rngs(Len(deck)) : deck' = shuffle(deck, rng)
    /\ call' = Call("shuffle", None, 0, 0, 0)
    /\ ordered' = FALSE
    /\ UNCHANGED <<hands, drawn, panicked, nonePops, pc, out>>

Next == Pop \/ DealHands \/ Shuffle

Spec == Init /\ [][Next]_vars

(***************************************************************************)
(* main.rs.                                                                *)
(***************************************************************************)
\* "Shuffled deck: "
Banner == <<83, 104, 117, 102, 102, 108, 101, 100, 32,
            100, 101, 99, 107, 58, 32>>

\* print!("Shuffled deck: "); let mut deck = Deck::shuffled();
MainInit ==
    /\ \E rng \in Rngs(Len(Default)) : deck = shuffled(rng)
    /\ call = Call("shuffled", None, 0, 0, 0)
    /\ ordered = FALSE
    /\ hands = <<>>
    /\ drawn = <<>>
    /\ panicked = FALSE
    /\ nonePops = 0
    /\ pc = "while"
    /\ out = Banner

\* while let Some(card) = deck.pop() { print!("{} ", card) }
MainWhile ==
    /\ pc = "while"
    /\ LET r == pop(deck) IN
        /\ deck' = r.cards
        /\ call' = Call("pop", r.ret, 0, 0, 1)
        /\ IF r.ret = None
           THEN /\ pc' = "println"
                /\ nonePops' = nonePops + 1
                /\ UNCHANGED <<drawn, out>>
           ELSE /\ pc' = "while"
                /\ drawn' = Append(drawn, unwrap(r.ret))
                /\ out' = out \o Display(unwrap(r.ret)) \o <<32>>
                /\ UNCHANGED nonePops
    /\ UNCHANGED <<hands, panicked, ordered>>

\* println!();
MainPrintln ==
    /\ pc = "println"
    /\ pc' = "done"
    /\ out' = out \o <<10>>
    /\ UNCHANGED <<deck, hands, drawn, call, panicked, ordered, nonePops>>

MainNext == MainWhile \/ MainPrintln

SpecMain == MainInit /\ [][MainNext]_vars

(***************************************************************************)
(* Helpers of the properties.                                              *)
(***************************************************************************)
\* The number of positions of sequence q that hold x.
Count(q, x) == Cardinality({p \in 1 .. Len(q) : q[p] = x})

\* b holds the same cards as a, each as many times: b is a permutation of a.
IsPermutation(a, b) ==
    /\ Len(a) = Len(b)
    /\ \A p \in 1 .. Len(a) : Count(b, a[p]) = Count(a, a[p])

\* The ranks and suits, written out in their enumeration order.
CanonSuits == <<"Clubs", "Diamonds", "Hearts", "Spades">>

CanonRanks == <<"Two", "Three", "Four", "Five", "Six", "Seven", "Eight",
                "Nine", "Ten", "Jack", "Queen", "King", "Ace">>

\* The 52 (rank, suit) pairs.
Cards52 ==
    {[rank |-> CanonRanks[r], suit |-> CanonSuits[s]] : r \in 1 .. 13, s \in 1 .. 4}

\* The positions <<i, j>> of the cards held in the hands.
HandSlots(hs) == {<<i, j>> \in (1 .. Len(hs)) \X (1 .. 52) : j <= Len(hs[i])}

(***************************************************************************)
(* C1: Deck::default() returns exactly 52 cards in the canonical order:    *)
(* 0-based position 13*s + r holds the card of the r-th rank (Two, ...,    *)
(* King, Ace) and the s-th suit (Clubs, Diamonds, Hearts, Spades); every   *)
(* (rank, suit) pair occurs exactly once, the bottom card is the Two of    *)
(* Clubs and the top card the Ace of Spades.                               *)
(***************************************************************************)
C1_DefaultIsCanonical ==
    call.op = "default" =>
        /\ Len(deck) = 52
        /\ \A s \in 0 .. 3, r \in 0 .. 12 :
              deck[13 * s + r + 1] =
                  [rank |-> CanonRanks[r + 1], suit |-> CanonSuits[s + 1]]
        /\ \A c \in Cards52 : Count(deck, c) = 1
        /\ deck[1] = [rank |-> "Two", suit |-> "Clubs"]
        /\ deck[52] = [rank |-> "Ace", suit |-> "Spades"]

C1_Witness ==
    /\ call.op = "default"
    /\ Len(deck) = 52
    /\ drawn = <<>>

(***************************************************************************)
(* C2: after n successful draws from a fresh ordered deck (n in 0..52) the *)
(* deck holds 52 - n cards, the k-th drawn card is the one that was at     *)
(* 0-based position 52 - k of the fresh deck, the remaining cards are the  *)
(* fresh deck's prefix in its order, and the drawn and the remaining cards *)
(* together are the 52 cards with none in both.                            *)
(***************************************************************************)
C2_DrawsFromTheEnd ==
    ordered =>
        LET n == Len(drawn) IN
        /\ n \in 0 .. 52
        /\ Len(deck) = 52 - n
        /\ \A k \in 1 .. n : drawn[k] = Default[(52 - k) + 1]
        /\ deck = SubSeq(Default, 1, 52 - n)
        /\ \A c \in Cards52 : Count(deck, c) + Count(drawn, c) = 1

C2_Witness ==
    /\ ordered
    /\ call.op = "pop"
    /\ hands = <<>>
    /\ Len(drawn) = 52
    /\ deck = <<>>

(***************************************************************************)
(* C3: pop on an empty deck returns None, does not abort and leaves the    *)
(* deck empty, however often it is repeated; and pop returns None only     *)
(* when the deck is empty.                                                 *)
(***************************************************************************)
C3_PopOnEmptyIsNone ==
    [][call'.op = "pop" =>
          /\ (deck = <<>>) =>
                (call'.ret = None /\ deck' = <<>> /\ ~panicked')
          /\ (call'.ret = None) => (deck = <<>>)]_vars

C3_Witness ==
    /\ call.op = "pop"
    /\ call.ret = None
    /\ nonePops >= 2
    /\ deck = <<>>
    /\ ~panicked

(***************************************************************************)
(* C4: deal_hands deals round-robin: on a deck of length L >=              *)
(* hand_count * cards_per_hand, the card at 0-based index j of hand i is   *)
(* the card that was at 0-based deck position L - 1 - (j * hand_count + i).*)
(***************************************************************************)
C4_DealIsRoundRobin ==
    [][(/\ call'.op = "deal_hands"
        /\ Len(deck) >= call'.hand_count * call'.cards_per_hand)
       =>
       \A i \in 0 .. (call'.hand_count - 1),
          j \in 0 .. (call'.cards_per_hand - 1) :
            hands'[i + 1][j + 1] =
                deck[(Len(deck) - 1 - (j * call'.hand_count + i)) + 1]]_vars

C4_Witness ==
    /\ call.op = "deal_hands"
    /\ call.hand_count >= 2
    /\ call.cards_per_hand >= 2
    /\ ~panicked
    /\ Len(hands) = call.hand_count
    /\ Len(hands[2]) = call.cards_per_hand

(***************************************************************************)
(* C5: on a deck holding at least hand_count * cards_per_hand cards,       *)
(* deal_hands returns hand_count hands of cards_per_hand cards each, and   *)
(* the deck is left with its bottom cards, hand_count * cards_per_hand     *)
(* fewer, in their order.                                                  *)
(***************************************************************************)
C5_DealCounts ==
    [][(/\ call'.op = "deal_hands"
        /\ Len(deck) >= call'.hand_count * call'.cards_per_hand)
       =>
       /\ ~panicked'
       /\ Len(hands') = call'.hand_count
       /\ \A i \in 1 .. Len(hands') : Len(hands'[i]) = call'.cards_per_hand
       /\ Len(deck') = Len(deck) - call'.hand_count * call'.cards_per_hand
       /\ deck' = SubSeq(deck, 1,
                         Len(deck) - call'.hand_count * call'.cards_per_hand)]_vars

C5_Witness ==
    /\ call.op = "deal_hands"
    /\ ~panicked
    /\ call.hand_count * call.cards_per_hand > 0
    /\ call.pops = call.hand_count * call.cards_per_hand
    /\ deck # <<>>

(***************************************************************************)
(* C6: deal_hands aborts if the deck holds fewer than hand_count *         *)
(* cards_per_hand cards and completes otherwise, also for hand_count = 0   *)
(* or cards_per_hand = 0.                                                  *)
(***************************************************************************)
C6_DealAbortsIffShort ==
    [][call'.op = "deal_hands" =>
          (panicked' <=>
              Len(deck) < call'.hand_count * call'.cards_per_hand)]_vars

C6_Witness ==
    /\ call.op = "deal_hands"
    /\ panicked
    /\ call.pops = 1

(***************************************************************************)
(* C7: shuffle only reorders the cards of the deck: the deck after it is a *)
(* permutation of the deck before it, whatever its length, and a deck of   *)
(* at most one card is left as it is; Deck::shuffled() is a permutation of *)
(* the 52 canonical cards.                                                 *)
(***************************************************************************)
C7_ShufflePermutes ==
    /\ [][call'.op = "shuffle" =>
             /\ IsPermutation(deck, deck')
             /\ Len(deck) <= 1 => deck' = deck]_vars
    /\ [](call.op = "shuffled" =>
             /\ Len(deck) = 52
             /\ \A c \in Cards52 : Count(deck, c) = 1)

C7_Witness ==
    /\ call.op = "shuffle"
    /\ Len(deck) \in 2 .. 51
    /\ drawn # <<>>
    /\ deck # SubSeq(Default, 1, Len(deck))

(***************************************************************************)
(* C8: whatever was called, the deck holds 0 to 52 of the original cards,  *)
(* none twice; no card is in the deck and in a hand, nor twice in the      *)
(* hands; and every one of the 52 cards either is in the deck or has been  *)
(* drawn from it, never both.                                              *)
(***************************************************************************)
C8_CardsArePartitioned ==
    /\ Len(deck) \in 0 .. 52
    /\ \A p \in 1 .. Len(deck) : deck[p] \in Cards52
    /\ \A c \in Cards52 : Count(deck, c) + Count(drawn, c) = 1
    /\ \A a \in HandSlots(hands), b \in HandSlots(hands) :
          a # b => hands[a[1]][a[2]] # hands[b[1]][b[2]]
    /\ \A a \in HandSlots(hands) :
          /\ hands[a[1]][a[2]] \in Cards52
          /\ Count(deck, hands[a[1]][a[2]]) = 0
          /\ Count(drawn, hands[a[1]][a[2]]) = 1

C8_Witness ==
    /\ ~ordered
    /\ call.op = "shuffle"
    /\ Len(hands) = 2
    /\ Len(hands[1]) = 2
    /\ Len(drawn) > 4
    /\ deck # <<>>

(***************************************************************************)
(* C9: a card is displayed as its rank's character (A, 2 to 9, T, J, Q, K) *)
(* followed by its suit's character (the club, diamond, heart or spade     *)
(* glyph) and nothing else; the Ace of Clubs as "A" and the club glyph,    *)
(* the Ten of Spades as "T" and the spade glyph; distinct cards are        *)
(* displayed differently.  main writes the display of the k-th drawn card  *)
(* and a space after the 15 characters of its banner and what it wrote for *)
(* the cards before.                                                       *)
(***************************************************************************)
RankChar(rank) ==
    CASE rank = "Ace" -> 65     \* A
      [] rank = "Ten" -> 84     \* T
      [] rank = "Jack" -> 74    \* J
      [] rank = "Queen" -> 81   \* Q
      [] rank = "King" -> 75    \* K
      [] OTHER -> 48 + (CHOOSE n \in 2 .. 9 : CanonRanks[n - 1] = rank)

SuitChar(suit) ==
    CASE suit = "Clubs" -> 9827       \* U+2663
      [] suit = "Diamonds" -> 9830    \* U+2666
      [] suit = "Hearts" -> 9829      \* U+2665
      [] suit = "Spades" -> 9824      \* U+2660

\* What main wrote for the k-th drawn card, without the space after it.
Shown(k) == SubSeq(out, 15 + 3 * (k - 1) + 1, 15 + 3 * (k - 1) + 2)

C9_CardDisplay ==
    /\ Len(out) = 15 + 3 * Len(drawn) + (IF pc = "done" THEN 1 ELSE 0)
    /\ \A k \in 1 .. Len(drawn) :
          /\ Shown(k) = <<RankChar(drawn[k].rank), SuitChar(drawn[k].suit)>>
          /\ drawn[k] = [rank |-> "Ace", suit |-> "Clubs"]
                => Shown(k) = <<65, 9827>>
          /\ drawn[k] = [rank |-> "Ten", suit |-> "Spades"]
                => Shown(k) = <<84, 9824>>
          /\ out[15 + 3 * k] = 32
    /\ \A k \in 1 .. Len(drawn), m \in 1 .. Len(drawn) :
          drawn[k] # drawn[m] => Shown(k) # Shown(m)

C9_Witness ==
    /\ pc = "done"
    /\ Len(drawn) = 52
    /\ \E k \in 1 .. 52 : drawn[k] = [rank |-> "Ten", suit |-> "Spades"]

(***************************************************************************)
(* C10: a failing deal is not atomic: called with hand_count > 0 on a deck *)
(* of length L < hand_count * cards_per_hand, deal_hands aborts at its     *)
(* (L+1)-th draw, after the L cards have been taken from the deck and      *)
(* pushed round-robin into the hands; the deck is then empty.              *)
(***************************************************************************)
C10_FailingDealDrainsDeck ==
    [][(/\ call'.op = "deal_hands"
        /\ call'.hand_count > 0
        /\ Len(deck) < call'.hand_count * call'.cards_per_hand)
       =>
       /\ panicked'
       /\ deck' = <<>>
       /\ call'.pops = Len(deck) + 1
       /\ Len(hands') = call'.hand_count
       /\ \A m \in 0 .. (Len(deck) - 1) :
             hands'[(m % call'.hand_count) + 1][(m \div call'.hand_count) + 1]
                 = deck[Len(deck) - m]
       /\ \A i \in 1 .. Len(hands') :
             Len(hands'[i]) =
                 Cardinality({m \in 0 .. (Len(deck) - 1) :
                                 m % call'.hand_count = i - 1})]_vars

C10_Witness ==
    /\ panicked
    /\ deck = <<>>
    /\ Len(hands) = 2
    /\ Len(hands[1]) = 2
    /\ Len(hands[2]) = 1

=============================================================================
